---- MODULE Spec2Model ----
(***************************************************************************)
(* Record store of equipment_tracker_enhanced.c: the in-memory inventory   *)
(* and supply-request arrays, the id counters, the name hash table, the    *)
(* two persistence backends (snapshot files, PostgreSQL) and the process   *)
(* life cycle of main().                                                   *)
(*                                                                         *)
(* Strings are sequences of bytes (0..255).  An Equipment record keeps the *)
(* fields the operations read or compute (id, name, quantity,              *)
(* min_threshold, checksum); description, unit, location, classification   *)
(* and last_updated are payload that every operation copies verbatim.      *)
(***************************************************************************)
EXTENDS Integers, Sequences, FiniteSets, TLC

\* ---------------------------------------------------------------- constants
HASH_SIZE == 1009
\* capacity of inventory[] and requests[] (1000 and 500 in the source)
MAX_ITEMS == 2
MAX_REQUESTS == 2
\* get_int_input range of quantity and threshold
INPUT_MAX == 999999

\* ------------------------------------------------------------------- bounds
\* number of steps of one behaviour: process starts, menu operations,
\* shutdowns and kills
MaxOps == 5
\* probe inputs of the pure functions: quantities 0..MaxProbeQty and
\* thresholds 0..MaxProbeThreshold, plus the ends of the accepted range
MaxProbeQty == 17
MaxProbeThreshold == 11

\* names typed at the prompt: "a", "ab"
Names == {<<97>>, <<97, 98>>}
\* search terms typed at the prompt: "a", "A"
Queries == {<<97>>, <<65>>}
Quantities == {0, 1}
Thresholds == {1}
\* names given to the pure functions: "", "a", "zz", and the one byte 0xE9
ProbeNames == {<< >>, <<97>>, <<122, 122>>, <<233>>}

VARIABLES
    phase,            \* "off": no process; "run": main() is in its menu loop
    ops,              \* number of steps taken so far
    startup,          \* how connect_database ended at this start, and the
                      \* number of connection attempts of this process
    use_database,     \* int use_database
    db_conn,          \* PGconn* db_conn: "NULL" or "conn"
    inventory,        \* inventory[0 .. item_count-1]
    item_count,
    next_item_id,
    requests,         \* requests[0 .. request_count-1]
    request_count,
    next_request_id,
    hash_table,       \* bucket -> chain of inventory indices (head first)
    data_file,        \* equipment.dat: [exists, count, next_id, records]
    request_file,     \* requests.dat
    db,               \* the PostgreSQL tables and their id sequences
    loaded_items,     \* number of records the startup load put in inventory
    last,             \* the operation that ran last, its input and its outcome
    char_signed,      \* whether plain char is signed in this build
    probe             \* argument and result of a pure function application

vars == <<phase, ops, startup, use_database, db_conn, inventory, item_count,
          next_item_id, requests, request_count, next_request_id, hash_table,
          data_file, request_file, db, loaded_items, last, char_signed, probe>>

\* ------------------------------------------------------------ small helpers
Max(a, b) == IF a >= b THEN a ELSE b

RECURSIVE SumSeq(_)
SumSeq(s) == IF s = << >> THEN 0 ELSE Head(s) + SumSeq(Tail(s))

\* C integer remainder: truncates toward zero
CRem(a, b) == IF a >= 0 THEN a % b ELSE -((-a) % b)

\* the int value of a char holding byte b
CharValue(b, signed) == IF signed /\ b >= 128 THEN b - 256 ELSE b

\* tolower in the C locale
ToLower(c) == IF c >= 65 /\ c <= 90 THEN c + 32 ELSE c

\* strcasestr(haystack, needle) != NULL
strcasestr(haystack, needle) ==
    \E o \in 0..(Len(haystack) - Len(needle)) :
        \A k \in 1..Len(needle) : ToLower(haystack[o + k]) = ToLower(needle[k])

\* ------------------------------------------------------------ hash function
\* The unsigned 32-bit hash is kept as two 16-bit halves <<high, low>>, so
\* that "hash = ((hash << 5) + hash) + c" wraps modulo 2^32 as in C.
HashStep(hash, c) ==
    LET low == hash[2] * 33 + c
        high == hash[1] * 33 + (low \div 65536)
    IN <<high % 65536, low % 65536>>

RECURSIVE HashLoop(_, _, _)
HashLoop(hash, str, signed) ==
    IF str = << >> THEN hash
    ELSE HashLoop(HashStep(hash, CharValue(Head(str), signed)), Tail(str), signed)

\* hash % HASH_SIZE, with hash = high * 65536 + low
hash_function(str, signed) ==
    LET hash == HashLoop(<<0, 5381>>, str, signed)
    IN ((hash[1] % HASH_SIZE) * (65536 % HASH_SIZE) + hash[2]) % HASH_SIZE

Bucket(ht, b) == IF b \in DOMAIN ht THEN ht[b] ELSE << >>

\* hash_insert without "new_node->next = hash_table[index]": the new node
\* replaces the chain of its bucket
hash_insert_unlinked(ht, idx, name, signed) ==
    LET b == hash_function(name, signed) IN
    [x \in (DOMAIN ht) \cup {b} |-> IF x = b THEN <<idx>> ELSE ht[x]]

\* hash_insert(&inventory[idx-1]): a new node at the head of the chain
hash_insert(ht, idx, name, signed) ==
    LET b == hash_function(name, signed) IN
    [x \in (DOMAIN ht) \cup {b} |->
        IF x = b THEN <<idx>> \o Bucket(ht, b) ELSE ht[x]]

RECURSIVE FirstMatch(_, _, _)
FirstMatch(chain, inv, name) ==
    IF chain = << >> THEN 0
    ELSE IF strcasestr(inv[Head(chain)].name, name) THEN Head(chain)
    ELSE FirstMatch(Tail(chain), inv, name)

\* hash_find: index of the first node of the bucket of `name` whose
\* equipment name contains `name`; 0 is NULL
hash_find(ht, inv, name, signed) ==
    FirstMatch(Bucket(ht, hash_function(name, signed)), inv, name)

RECURSIVE FindFrom(_, _, _, _)
FindFrom(inv, cnt, i, id) ==
    IF i > cnt THEN 0
    ELSE IF inv[i].id = id THEN i
    ELSE FindFrom(inv, cnt, i + 1, id)

\* find_by_id: index of the first record with this id; 0 is NULL
find_by_id(inv, cnt, id) == FindFrom(inv, cnt, 1, id)

\* ------------------------------------------------- stock status, checksum
\* (int)(min_threshold * 1.5): the double product is exact, its value is
\* 3*min_threshold/2, and the conversion truncates toward zero
TruncHalf(n) == IF n >= 0 THEN n \div 2 ELSE -((-n) \div 2)

\* get_stock_status with the two tests in the other order
get_stock_status_watch_first(quantity, min_threshold) ==
    IF quantity <= TruncHalf(3 * min_threshold) THEN "WATCH"
    ELSE IF quantity <= min_threshold THEN "LOW"
    ELSE "OK"

get_stock_status(quantity, min_threshold) ==
    IF quantity <= min_threshold THEN "LOW"
    ELSE IF quantity <= TruncHalf(3 * min_threshold) THEN "WATCH"
    ELSE "OK"

RECURSIVE CharSum(_, _)
CharSum(name, signed) ==
    IF name = << >> THEN 0
    ELSE CharValue(Head(name), signed) + CharSum(Tail(name), signed)

calculate_checksum(id, quantity, min_threshold, name, signed) ==
    CRem(id + quantity + min_threshold + CharSum(name, signed), 10000)

RECURSIVE Digits(_)
Digits(n) == IF n < 10 THEN <<48 + n>> ELSE Digits(n \div 10) \o <<48 + (n % 10)>>

RECURSIVE ZeroPad(_, _)
ZeroPad(s, width) == IF Len(s) >= width THEN s ELSE ZeroPad(<<48>> \o s, width)

\* sprintf(buf, "%04d", n): sign first, then zeros up to a field width of 4
Format04d(n) ==
    IF n >= 0 THEN ZeroPad(Digits(n), 4)
    ELSE <<45>> \o ZeroPad(Digits(-n), 3)

ChecksumString(id, quantity, min_threshold, name, signed) ==
    Format04d(calculate_checksum(id, quantity, min_threshold, name, signed))

\* ------------------------------------------------------------- the database
\* The equipment and supply_requests tables, each with the sequence that
\* gives the id of "INSERT ... RETURNING id".
EmptyDb == [equipment |-> << >>, equipment_seq |-> 1,
            requests |-> << >>, requests_seq |-> 1]

\* execute_query: NULL (FALSE) without a connection or when PQexec does not
\* end with the expected status
execute_query(conn, outcome) == conn # "NULL" /\ outcome = "ok"

\* add_equipment_to_db: the id the INSERT returned (0 on failure) and the
\* database after it
add_equipment_to_db(conn, d, item, outcome) ==
    IF conn = "NULL" THEN [id |-> 0, db |-> d]
    ELSE IF ~execute_query(conn, outcome) THEN [id |-> 0, db |-> d]
    ELSE [id |-> d.equipment_seq,
          db |-> [d EXCEPT
                    !.equipment = Append(@, [item EXCEPT !.id = d.equipment_seq]),
                    !.equipment_seq = @ + 1]]

\* update_equipment_in_db: UPDATE equipment SET quantity, checksum WHERE id
update_equipment_in_db(conn, d, item, outcome) ==
    IF conn = "NULL" THEN d
    ELSE IF ~execute_query(conn, outcome) THEN d
    ELSE [d EXCEPT !.equipment =
            [i \in 1..Len(@) |->
                IF @[i].id = item.id
                THEN [@[i] EXCEPT !.quantity = item.quantity,
                                  !.checksum = item.checksum]
                ELSE @[i]]]

\* add_request_to_db
add_request_to_db(conn, d, req, outcome) ==
    IF conn = "NULL" THEN [id |-> 0, db |-> d]
    ELSE IF ~execute_query(conn, outcome) THEN [id |-> 0, db |-> d]
    ELSE [id |-> d.requests_seq,
          db |-> [d EXCEPT
                    !.requests = Append(@, [req EXCEPT !.req_id = d.requests_seq]),
                    !.requests_seq = @ + 1]]

\* the database after `n` more equipment rows were inserted through
\* add_equipment_to_db by sessions that allocated the same ids locally
RECURSIVE Seeded(_, _)
Seeded(d, n) ==
    IF n = 0 THEN d
    ELSE LET id == d.equipment_seq
             item == [id |-> id, name |-> <<97>>, quantity |-> 1, min_threshold |-> 1,
                      checksum |-> ChecksumString(id, 1, 1, <<97>>, TRUE)]
         IN Seeded(add_equipment_to_db("conn", d, item, "ok").db, n - 1)

\* the database at the first start: empty, or holding more equipment rows
\* than inventory[] has room for
InitialDbs == {EmptyDb, Seeded(EmptyDb, MAX_ITEMS + 1)}

\* "ORDER BY id" / "ORDER BY req_id": the rows by ascending key column
RECURSIVE OrderBy(_, _)
OrderBy(rows, column) ==
    IF rows = << >> THEN << >>
    ELSE LET m == CHOOSE i \in 1..Len(rows) :
                    \A j \in 1..Len(rows) :
                        \/ rows[i][column] < rows[j][column]
                        \/ (rows[i][column] = rows[j][column] /\ i <= j)
             rest == [k \in 1..(Len(rows) - 1) |-> IF k < m THEN rows[k] ELSE rows[k + 1]]
         IN <<rows[m]>> \o OrderBy(rest, column)

\* -------------------------------------------------------------- operations
\* the counter is left where the local allocation put it
resync_next_id_kept(next_id, db_id) == next_id

\* "if (db_id > 0) { ...; if (db_id >= next_id) next_id = db_id + 1; }":
\* the id counter after the database returned db_id
resync_next_id(next_id, db_id) ==
    IF db_id > 0 /\ db_id >= next_id THEN db_id + 1 ELSE next_id

\* add_equipment taking the id before the capacity test, as request_supply
\* takes its id before the lookup
add_equipment_id_first(inv, cnt, nid, ht, useDb, conn, d, in, outcome, signed) ==
    IF cnt >= MAX_ITEMS
    THEN [inventory |-> inv, item_count |-> cnt, next_item_id |-> nid + 1,
          hash_table |-> ht, db |-> d, outcome |-> "CapacityExceeded", id |-> 0]
    ELSE
      LET local == [id |-> nid, name |-> in.name, quantity |-> in.quantity,
                    min_threshold |-> in.min_threshold,
                    checksum |-> ChecksumString(nid, in.quantity, in.min_threshold,
                                                in.name, signed)]
          ins == IF useDb = 1 THEN add_equipment_to_db(conn, d, local, outcome)
                 ELSE [id |-> 0, db |-> d]
          item == IF ins.id > 0 THEN [local EXCEPT !.id = ins.id] ELSE local
          nid2 == resync_next_id(nid + 1, ins.id)
      IN [inventory |-> Append(inv, item), item_count |-> cnt + 1,
          next_item_id |-> nid2,
          hash_table |-> hash_insert(ht, cnt + 1, item.name, signed),
          db |-> ins.db, outcome |-> "ok", id |-> item.id]

\* add_equipment: the store and the database after the call
add_equipment(inv, cnt, nid, ht, useDb, conn, d, in, outcome, signed) ==
    IF cnt >= MAX_ITEMS
    THEN [inventory |-> inv, item_count |-> cnt, next_item_id |-> nid,
          hash_table |-> ht, db |-> d, outcome |-> "CapacityExceeded", id |-> 0]
    ELSE
      LET local == [id |-> nid, name |-> in.name, quantity |-> in.quantity,
                    min_threshold |-> in.min_threshold,
                    checksum |-> ChecksumString(nid, in.quantity, in.min_threshold,
                                                in.name, signed)]
          ins == IF useDb = 1 THEN add_equipment_to_db(conn, d, local, outcome)
                 ELSE [id |-> 0, db |-> d]
          item == IF ins.id > 0 THEN [local EXCEPT !.id = ins.id] ELSE local
          nid2 == resync_next_id(nid + 1, ins.id)
      IN [inventory |-> Append(inv, item), item_count |-> cnt + 1,
          next_item_id |-> nid2,
          hash_table |-> hash_insert(ht, cnt + 1, item.name, signed),
          db |-> ins.db, outcome |-> "ok", id |-> item.id]

\* check_inventory: the indices of the records it displays
check_inventory(ht, inv, cnt, item_name, signed) ==
    LET item == hash_find(ht, inv, item_name, signed) IN
    IF item # 0 THEN {item}
    ELSE {i \in 1..cnt : strcasestr(inv[i].name, item_name)}

\* update_quantity without the sprintf that refreshes the checksum
update_quantity_stale_checksum(inv, cnt, useDb, conn, d, id, qty, outcome, signed) ==
    LET idx == find_by_id(inv, cnt, id) IN
    IF idx = 0
    THEN [inventory |-> inv, db |-> d, outcome |-> "NotFound"]
    ELSE
      LET item == [inv[idx] EXCEPT !.quantity = qty]
      IN [inventory |-> [inv EXCEPT ![idx] = item],
          db |-> IF useDb = 1 THEN update_equipment_in_db(conn, d, item, outcome)
                 ELSE d,
          outcome |-> "ok"]

\* update_quantity
update_quantity(inv, cnt, useDb, conn, d, id, qty, outcome, signed) ==
    LET idx == find_by_id(inv, cnt, id) IN
    IF idx = 0
    THEN [inventory |-> inv, db |-> d, outcome |-> "NotFound"]
    ELSE
      LET item == [inv[idx] EXCEPT
                     !.quantity = qty,
                     !.checksum = ChecksumString(inv[idx].id, qty,
                                                 inv[idx].min_threshold,
                                                 inv[idx].name, signed)]
      IN [inventory |-> [inv EXCEPT ![idx] = item],
          db |-> IF useDb = 1 THEN update_equipment_in_db(conn, d, item, outcome)
                 ELSE d,
          outcome |-> "ok"]

\* request_supply.  requests holds the request_count records in use; the
\* slot after them, which a failed call leaves half filled, is not part of it.
request_supply(reqs, rcnt, nrid, inv, cnt, useDb, conn, d, in, outcome) ==
    IF rcnt >= MAX_REQUESTS
    THEN [requests |-> reqs, request_count |-> rcnt, next_request_id |-> nrid,
          db |-> d, outcome |-> "CapacityExceeded", id |-> 0]
    ELSE IF find_by_id(inv, cnt, in.equipment_id) = 0
    THEN [requests |-> reqs, request_count |-> rcnt, next_request_id |-> nrid + 1,
          db |-> d, outcome |-> "NotFound", id |-> 0]
    ELSE
      LET local == [req_id |-> nrid, equipment_id |-> in.equipment_id,
                    requested_qty |-> in.requested_qty, status |-> 0,
                    priority |-> in.priority]
          ins == IF useDb = 1 THEN add_request_to_db(conn, d, local, outcome)
                 ELSE [id |-> 0, db |-> d]
          req == IF ins.id > 0 THEN [local EXCEPT !.req_id = ins.id] ELSE local
          nrid2 == resync_next_id(nrid + 1, ins.id)
      IN [requests |-> Append(reqs, req), request_count |-> rcnt + 1,
          next_request_id |-> nrid2, db |-> ins.db, outcome |-> "ok",
          id |-> req.req_id]

\* -------------------------------------------------------------- persistence
\* the hash_insert calls of a load, for inventory[i-1 .. cnt-1]
RECURSIVE InsertAll(_, _, _, _, _)
InsertAll(ht, inv, i, cnt, signed) ==
    IF i > cnt THEN ht
    ELSE InsertAll(hash_insert(ht, i, inv[i].name, signed), inv, i + 1, cnt, signed)

\* the load leaves the counter as it was
AdvanceNextIdSkipped(nid, rows, column, i, cnt) == nid

\* "if (id >= next_id) next_id = id + 1" over rows[i-1 .. cnt-1]
RECURSIVE AdvanceNextId(_, _, _, _, _)
AdvanceNextId(nid, rows, column, i, cnt) ==
    IF i > cnt THEN nid
    ELSE AdvanceNextId(IF rows[i][column] >= nid THEN rows[i][column] + 1 ELSE nid,
                       rows, column, i + 1, cnt)

\* the globals of a process that has just started
FreshEquipment == [inventory |-> << >>, item_count |-> 0, next_item_id |-> 1,
                   hash_table |-> << >>]
FreshRequests == [requests |-> << >>, request_count |-> 0, next_request_id |-> 1]

load_equipment_from_db(conn, d, outcome, signed) ==
    IF ~execute_query(conn, outcome) THEN FreshEquipment
    ELSE
      LET rows == OrderBy(d.equipment, "id")
          cnt == IF Len(rows) > MAX_ITEMS THEN MAX_ITEMS ELSE Len(rows)
          inv == SubSeq(rows, 1, cnt)
      IN [inventory |-> inv, item_count |-> cnt,
          next_item_id |-> AdvanceNextId(1, inv, "id", 1, cnt),
          hash_table |-> InsertAll(<< >>, inv, 1, cnt, signed)]

load_requests_from_db(conn, d, outcome) ==
    IF ~execute_query(conn, outcome) THEN FreshRequests
    ELSE
      LET rows == OrderBy(d.requests, "req_id")
          cnt == IF Len(rows) > MAX_REQUESTS THEN MAX_REQUESTS ELSE Len(rows)
          reqs == SubSeq(rows, 1, cnt)
      IN [requests |-> reqs, request_count |-> cnt,
          next_request_id |-> AdvanceNextId(1, reqs, "req_id", 1, cnt)]

\* a snapshot file that does not exist: fopen(..., "rb") gives NULL
NoFile == [exists |-> FALSE, count |-> 0, next_id |-> 0, records |-> << >>]

\* load_data that does not read requests.dat
load_data_no_requests(useDb, conn, d, dfile, rfile, eq_outcome, rq_outcome, signed) ==
    IF useDb = 1
    THEN [equipment |-> load_equipment_from_db(conn, d, eq_outcome, signed),
          requests |-> load_requests_from_db(conn, d, rq_outcome)]
    ELSE [equipment |->
            IF ~dfile.exists THEN FreshEquipment
            ELSE [inventory |-> SubSeq(dfile.records, 1, dfile.count),
                  item_count |-> dfile.count,
                  next_item_id |-> dfile.next_id,
                  hash_table |-> InsertAll(<< >>, dfile.records, 1, dfile.count, signed)],
          requests |-> FreshRequests]

\* load_data in a process that has just started: first the equipment, then
\* the requests
load_data(useDb, conn, d, dfile, rfile, eq_outcome, rq_outcome, signed) ==
    IF useDb = 1
    THEN [equipment |-> load_equipment_from_db(conn, d, eq_outcome, signed),
          requests |-> load_requests_from_db(conn, d, rq_outcome)]
    ELSE [equipment |->
            IF ~dfile.exists THEN FreshEquipment
            ELSE [inventory |-> SubSeq(dfile.records, 1, dfile.count),
                  item_count |-> dfile.count,
                  next_item_id |-> dfile.next_id,
                  hash_table |-> InsertAll(<< >>, dfile.records, 1, dfile.count, signed)],
          requests |->
            IF ~rfile.exists THEN FreshRequests
            ELSE [requests |-> SubSeq(rfile.records, 1, rfile.count),
                  request_count |-> rfile.count,
                  next_request_id |-> rfile.next_id]]

\* save_data writing one record less than the arrays hold
save_data_short(useDb, inv, cnt, nid, reqs, rcnt, nrid, dfile, rfile, eq_open, rq_open) ==
    IF useDb # 0 THEN [data_file |-> dfile, request_file |-> rfile]
    ELSE [data_file |->
            IF eq_open THEN [exists |-> TRUE, count |-> Max(cnt - 1, 0), next_id |-> nid,
                             records |-> SubSeq(inv, 1, cnt - 1)]
            ELSE dfile,
          request_file |->
            IF rq_open THEN [exists |-> TRUE, count |-> Max(rcnt - 1, 0), next_id |-> nrid,
                             records |-> SubSeq(reqs, 1, rcnt - 1)]
            ELSE rfile]

\* save_data: the two snapshot files after it; a file that cannot be opened
\* keeps its old content
save_data(useDb, inv, cnt, nid, reqs, rcnt, nrid, dfile, rfile, eq_open, rq_open) ==
    IF useDb # 0 THEN [data_file |-> dfile, request_file |-> rfile]
    ELSE [data_file |->
            IF eq_open THEN [exists |-> TRUE, count |-> cnt, next_id |-> nid,
                             records |-> SubSeq(inv, 1, cnt)]
            ELSE dfile,
          request_file |->
            IF rq_open THEN [exists |-> TRUE, count |-> rcnt, next_id |-> nrid,
                             records |-> SubSeq(reqs, 1, rcnt)]
            ELSE rfile]

\* load_db_config: 0 when db_config.conf cannot be opened, otherwise 1,
\* whatever keys the file holds
load_db_config(config) == IF config = "absent" THEN 0 ELSE 1

\* connect_database that reports success although the connection failed
connect_database_no_fallback(config, connection_ok) ==
    IF load_db_config(config) = 0
    THEN [result |-> 0, db_conn |-> "NULL", attempts |-> 0]
    ELSE IF ~connection_ok THEN [result |-> 1, db_conn |-> "NULL", attempts |-> 1]
    ELSE [result |-> 1, db_conn |-> "conn", attempts |-> 1]

\* connect_database that calls PQconnectdb a second time after a failure
connect_database_retry(config, connection_ok) ==
    IF load_db_config(config) = 0
    THEN [result |-> 0, db_conn |-> "NULL", attempts |-> 0]
    ELSE IF ~connection_ok THEN [result |-> 0, db_conn |-> "NULL", attempts |-> 2]
    ELSE [result |-> 1, db_conn |-> "conn", attempts |-> 1]

\* connect_database: its return value, db_conn after it, and the number of
\* PQconnectdb calls it made
connect_database(config, connection_ok) ==
    IF load_db_config(config) = 0
    THEN [result |-> 0, db_conn |-> "NULL", attempts |-> 0]
    ELSE IF ~connection_ok THEN [result |-> 0, db_conn |-> "NULL", attempts |-> 1]
    ELSE [result |-> 1, db_conn |-> "conn", attempts |-> 1]

\* ------------------------------------------------------------ state machine
Configs == {"absent", "partial", "complete"}
QueryOutcomes == {"ok", "fail"}
\* the outcome of the statement an operation sends, when it sends one
Outcomes == IF use_database = 1 THEN QueryOutcomes ELSE {"none"}

\* ids typed at the prompt: every id at most next_item_id, which covers the
\* ids held and one id that no record has
EnteredIds == 1..next_item_id

\* one more step of the behaviour
Step == ops < MaxOps /\ ops' = ops + 1

NoStartup == [config |-> "none", result |-> "none", attempts |-> 0]
NoOp == [op |-> "none", input |-> << >>, outcome |-> "none", shown |-> {}]
NoProbe == [id |-> 0, quantity |-> 0, min_threshold |-> 0, name |-> << >>,
            status |-> "", checksum |-> << >>]

storeVars == <<inventory, item_count, next_item_id, requests, request_count,
               next_request_id, hash_table>>
fileVars == <<data_file, request_file>>
modeVars == <<use_database, db_conn, startup>>

Init ==
    /\ phase = "off"
    /\ ops = 0
    /\ startup = NoStartup
    /\ use_database = 0
    /\ db_conn = "NULL"
    /\ inventory = << >>
    /\ item_count = 0
    /\ next_item_id = 1
    /\ requests = << >>
    /\ request_count = 0
    /\ next_request_id = 1
    /\ hash_table = << >>
    /\ data_file = NoFile
    /\ request_file = NoFile
    /\ db \in InitialDbs
    /\ loaded_items = 0
    /\ last = NoOp
    /\ char_signed = TRUE
    /\ probe = NoProbe

\* main() up to the menu loop: connect_database, then load_data
Start ==
    /\ Step
    /\ phase = "off"
    /\ \E config \in Configs, connection_ok \in BOOLEAN,
          eq_outcome \in QueryOutcomes, rq_outcome \in QueryOutcomes :
         LET c == connect_database(config, connection_ok)
             l == load_data(c.result, c.db_conn, db, data_file, request_file,
                            eq_outcome, rq_outcome, char_signed)
         IN /\ use_database' = c.result
            /\ db_conn' = c.db_conn
            /\ startup' = [config |-> config,
                           result |-> IF config = "absent" THEN "none"
                                      ELSE IF connection_ok THEN "connected"
                                      ELSE "failed",
                           attempts |-> c.attempts]
            /\ inventory' = l.equipment.inventory
            /\ item_count' = l.equipment.item_count
            /\ next_item_id' = l.equipment.next_item_id
            /\ hash_table' = l.equipment.hash_table
            /\ requests' = l.requests.requests
            /\ request_count' = l.requests.request_count
            /\ next_request_id' = l.requests.next_request_id
            /\ loaded_items' = l.equipment.item_count
    /\ phase' = "run"
    /\ last' = [NoOp EXCEPT !.op = "start", !.outcome = "ok"]
    /\ UNCHANGED <<fileVars, db, char_signed, probe>>

\* menu choice 1
AddEquipment ==
    /\ Step
    /\ phase = "run"
    /\ \E name \in Names, quantity \in Quantities, min_threshold \in Thresholds,
          outcome \in Outcomes :
         LET in == [name |-> name, quantity |-> quantity,
                    min_threshold |-> min_threshold]
             r == add_equipment(inventory, item_count, next_item_id, hash_table,
                                use_database, db_conn, db, in, outcome, char_signed)
         IN /\ inventory' = r.inventory
            /\ item_count' = r.item_count
            /\ next_item_id' = r.next_item_id
            /\ hash_table' = r.hash_table
            /\ db' = r.db
            /\ last' = [op |-> "add_equipment", input |-> << >>,
                        outcome |-> r.outcome, shown |-> {}]
    /\ UNCHANGED <<phase, modeVars, requests, request_count,
                   next_request_id, fileVars, loaded_items, char_signed, probe>>

\* menu choice 2
CheckInventory ==
    /\ Step
    /\ phase = "run"
    /\ \E q \in Queries :
         LET shown == check_inventory(hash_table, inventory, item_count, q, char_signed)
         IN last' = [op |-> "check_inventory", input |-> <<q>>,
                     outcome |-> IF shown = {} THEN "NoMatch" ELSE "ok",
                     shown |-> shown]
    /\ UNCHANGED <<phase, modeVars, storeVars, fileVars, db, loaded_items,
                   char_signed, probe>>

\* menu choice 4.  The new quantity is asked for only when the id was found.
UpdateQuantity ==
    /\ Step
    /\ phase = "run"
    /\ \E id \in EnteredIds, quantity \in Quantities, outcome \in Outcomes :
         LET r == update_quantity(inventory, item_count, use_database, db_conn, db,
                                  id, quantity, outcome, char_signed)
         IN /\ inventory' = r.inventory
            /\ db' = r.db
            /\ last' = [op |-> "update_quantity",
                        input |-> IF r.outcome = "NotFound" THEN <<id>>
                                  ELSE <<id, quantity>>,
                        outcome |-> r.outcome, shown |-> {}]
    /\ UNCHANGED <<phase, modeVars, item_count, next_item_id, requests,
                   request_count, next_request_id, hash_table, fileVars,
                   loaded_items, char_signed, probe>>

\* menu choice 5
RequestSupply ==
    /\ Step
    /\ phase = "run"
    /\ \E equipment_id \in EnteredIds, outcome \in Outcomes :
         LET in == [equipment_id |-> equipment_id, requested_qty |-> 1,
                    priority |-> 2]
             r == request_supply(requests, request_count, next_request_id,
                                 inventory, item_count, use_database, db_conn, db,
                                 in, outcome)
         IN /\ requests' = r.requests
            /\ request_count' = r.request_count
            /\ next_request_id' = r.next_request_id
            /\ db' = r.db
            /\ last' = [op |-> "request_supply", input |-> << >>,
                        outcome |-> r.outcome, shown |-> {}]
    /\ UNCHANGED <<phase, modeVars, inventory, item_count, next_item_id,
                   hash_table, fileVars, loaded_items, char_signed, probe>>

\* menu choice 9: save_data, PQfinish, the hash nodes freed, exit(0).  The
\* arrays and counters keep the values the process ended with.  The outcome
\* is what the user is told: save_data prints "Data saved to local files."
\* after its two fopen blocks and main prints "Data saved successfully."
\* after save_data, whether or not a file was opened.
Shutdown ==
    /\ Step
    /\ phase = "run"
    /\ \E eq_open \in (IF use_database = 0 THEN BOOLEAN ELSE {TRUE}),
          rq_open \in (IF use_database = 0 THEN BOOLEAN ELSE {TRUE}) :
         LET f == save_data(use_database, inventory, item_count, next_item_id,
                            requests, request_count, next_request_id,
                            data_file, request_file, eq_open, rq_open)
         IN /\ data_file' = f.data_file
            /\ request_file' = f.request_file
            /\ last' = [op |-> "shutdown", input |-> <<eq_open, rq_open>>,
                        outcome |-> "saved", shown |-> {}]
    /\ db_conn' = "NULL"
    /\ hash_table' = << >>
    /\ phase' = "off"
    /\ UNCHANGED <<use_database, startup, inventory, item_count,
                   next_item_id, requests, request_count, next_request_id, db,
                   loaded_items, char_signed, probe>>

\* the process is killed in its menu loop: nothing is saved
Kill ==
    /\ Step
    /\ phase = "run"
    /\ phase' = "off"
    /\ db_conn' = "NULL"
    /\ inventory' = FreshEquipment.inventory
    /\ item_count' = FreshEquipment.item_count
    /\ next_item_id' = FreshEquipment.next_item_id
    /\ hash_table' = FreshEquipment.hash_table
    /\ requests' = FreshRequests.requests
    /\ request_count' = FreshRequests.request_count
    /\ next_request_id' = FreshRequests.next_request_id
    /\ loaded_items' = 0
    /\ last' = [NoOp EXCEPT !.op = "kill"]
    /\ UNCHANGED <<use_database, startup, fileVars, db, char_signed, probe>>

Next ==
    \/ Start
    \/ AddEquipment
    \/ CheckInventory
    \/ UpdateQuantity
    \/ RequestSupply
    \/ Shutdown
    \/ Kill

Spec == Init /\ [][Next]_vars

\* --------------------------------------------------- the pure functions
ProbeQuantities == (0..MaxProbeQty) \cup {INPUT_MAX - 1, INPUT_MAX}
ProbeThresholds == (0..MaxProbeThreshold) \cup {666666, INPUT_MAX}
ProbeIds == {1, 9998}

FnInit ==
    /\ phase = "off"
    /\ ops = 0
    /\ startup = NoStartup
    /\ use_database = 0
    /\ db_conn = "NULL"
    /\ inventory = << >>
    /\ item_count = 0
    /\ next_item_id = 1
    /\ requests = << >>
    /\ request_count = 0
    /\ next_request_id = 1
    /\ hash_table = << >>
    /\ data_file = NoFile
    /\ request_file = NoFile
    /\ db = EmptyDb
    /\ loaded_items = 0
    /\ last = NoOp
    /\ char_signed \in BOOLEAN
    /\ probe \in [id : ProbeIds, quantity : ProbeQuantities,
                  min_threshold : ProbeThresholds, name : ProbeNames,
                  status : {""}, checksum : {<< >>}]

\* get_stock_status(item) on the probe item
ApplyStockStatus ==
    /\ probe.status = ""
    /\ probe' = [probe EXCEPT
                   !.status = get_stock_status(probe.quantity, probe.min_threshold)]
    /\ UNCHANGED <<phase, ops, modeVars, storeVars, fileVars, db, loaded_items,
                   last, char_signed>>

\* sprintf(item->checksum, "%04d", calculate_checksum(item)) on the probe item
ApplyChecksum ==
    /\ probe.checksum = << >>
    /\ probe' = [probe EXCEPT
                   !.checksum = ChecksumString(probe.id, probe.quantity,
                                               probe.min_threshold, probe.name,
                                               char_signed)]
    /\ UNCHANGED <<phase, ops, modeVars, storeVars, fileVars, db, loaded_items,
                   last, char_signed>>

FnNext == ApplyStockStatus \/ ApplyChecksum

FnSpec == FnInit /\ [][FnNext]_vars

\* ================================================================== claims

Created == (loaded_items + 1)..item_count
Loaded == 1..loaded_items

\* C1: the ids of the records created by add_equipment in this process are
\* pairwise distinct and each is strictly greater than the id of every
\* record created before it, in file mode and in database mode.
CreatedIdsIncrease ==
    \A i \in Created : \A j \in Created :
        j < i => inventory[j].id < inventory[i].id

\* C2: after the startup load the id counter is at least max(loaded ids) + 1,
\* and no record created afterwards has the id of a loaded record.
LoadResyncsCounter ==
    /\ last.op = "start" =>
          \A i \in 1..item_count : next_item_id >= inventory[i].id + 1
    /\ \A i \in Loaded : \A j \in Created : inventory[i].id # inventory[j].id

\* C2 witness: a record was created in a process that loaded records
LoadResyncWitness ==
    /\ phase = "run"
    /\ loaded_items >= 1
    /\ item_count > loaded_items
    /\ last.op = "add_equipment"

\* the records whose name contains the search term, case-insensitively
Matches(q) == {i \in 1..item_count : strcasestr(inventory[i].name, q)}

\* C3: check_inventory reports every record whose name contains the search
\* term case-insensitively, whether the index or the scan found the hit.
SearchReportsEveryMatch ==
    last.op = "check_inventory" => last.shown = Matches(last.input[1])

\* C4: a request_supply call that fails with NotFound leaves request_count,
\* the request collection and next_request_id unchanged.
NotFoundAllocatesNothing ==
    [][(last'.op = "request_supply" /\ last'.outcome = "NotFound")
          => UNCHANGED <<request_count, requests, next_request_id>>]_vars

\* a file-mode process starts right after a file-mode process shut down
\* and wrote both snapshot files
RoundTripStep ==
    /\ phase = "off" /\ phase' = "run"
    /\ last.op = "shutdown" /\ last.input = <<TRUE, TRUE>>
    /\ use_database = 0 /\ use_database' = 0

\* C5: in file mode, save_data followed by load_data in a fresh process
\* reproduces the same equipment and request records, field for field, and
\* the same next_item_id and next_request_id, which exceed every loaded id.
SaveLoadRoundTrip ==
    [][RoundTripStep =>
          /\ item_count' = item_count
          /\ inventory' = inventory
          /\ request_count' = request_count
          /\ requests' = requests
          /\ next_item_id' = next_item_id
          /\ next_request_id' = next_request_id
          /\ \A i \in 1..item_count' : inventory'[i].id < next_item_id'
          /\ \A i \in 1..request_count' : requests'[i].req_id < next_request_id']_vars

\* C5 witness: a file-mode process has just loaded the records and requests
\* that the file-mode process before it saved
RoundTripWitness ==
    /\ phase = "run" /\ last.op = "start" /\ use_database = 0
    /\ data_file.exists /\ request_file.exists
    /\ item_count >= 1 /\ request_count >= 1
    /\ inventory = data_file.records
    /\ requests = request_file.records

\* the session started without a usable database: no configuration file,
\* or the connection failed
Fallback == startup.config = "absent" \/ startup.result = "failed"

\* a step of the program that never had a database configuration, taken
\* from the current store and files
NoDatabaseStep ==
    \/ /\ phase = "off" /\ phase' = "run"
       /\ LET l == load_data(0, "NULL", db, data_file, request_file, "ok", "ok",
                             char_signed)
          IN storeVars' = <<l.equipment.inventory, l.equipment.item_count,
                            l.equipment.next_item_id, l.requests.requests,
                            l.requests.request_count, l.requests.next_request_id,
                            l.equipment.hash_table>>
       /\ UNCHANGED fileVars
    \/ /\ phase = "run" /\ phase' = "run"
       /\ \E name \in Names, quantity \in Quantities, min_threshold \in Thresholds :
            LET r == add_equipment(inventory, item_count, next_item_id, hash_table,
                                   0, "NULL", db,
                                   [name |-> name, quantity |-> quantity,
                                    min_threshold |-> min_threshold],
                                   "none", char_signed)
            IN /\ storeVars' = <<r.inventory, r.item_count, r.next_item_id, requests,
                                 request_count, next_request_id, r.hash_table>>
               /\ last'.op = "add_equipment" /\ last'.outcome = r.outcome
       /\ UNCHANGED fileVars
    \/ /\ phase = "run" /\ phase' = "run"
       /\ \E q \in Queries :
            /\ last'.op = "check_inventory"
            /\ last'.shown = check_inventory(hash_table, inventory, item_count, q,
                                              char_signed)
       /\ UNCHANGED <<storeVars, fileVars>>
    \/ /\ phase = "run" /\ phase' = "run"
       /\ \E id \in EnteredIds, quantity \in Quantities :
            LET r == update_quantity(inventory, item_count, 0, "NULL", db, id,
                                     quantity, "none", char_signed)
            IN /\ inventory' = r.inventory
               /\ last'.op = "update_quantity" /\ last'.outcome = r.outcome
       /\ UNCHANGED <<item_count, next_item_id, requests, request_count,
                      next_request_id, hash_table, fileVars>>
    \/ /\ phase = "run" /\ phase' = "run"
       /\ \E equipment_id \in EnteredIds :
            LET r == request_supply(requests, request_count, next_request_id,
                                    inventory, item_count, 0, "NULL", db,
                                    [equipment_id |-> equipment_id,
                                     requested_qty |-> 1, priority |-> 2],
                                    "none")
            IN /\ requests' = r.requests
               /\ request_count' = r.request_count
               /\ next_request_id' = r.next_request_id
               /\ last'.op = "request_supply" /\ last'.outcome = r.outcome
       /\ UNCHANGED <<inventory, item_count, next_item_id, hash_table, fileVars>>
    \/ /\ phase = "run" /\ phase' = "off"
       /\ \/ \E eq_open \in BOOLEAN, rq_open \in BOOLEAN :
               LET f == save_data(0, inventory, item_count, next_item_id, requests,
                                  request_count, next_request_id, data_file,
                                  request_file, eq_open, rq_open)
               IN /\ fileVars' = <<f.data_file, f.request_file>>
                  /\ last'.op = "shutdown"
          \/ last'.op = "kill" /\ UNCHANGED fileVars

\* C6: with the configuration file absent or the database unreachable the
\* startup completes in file mode (use_database = 0, db_conn = NULL), and
\* every step of that session is a step of the program started with no
\* database configuration; the database is never touched.
FallbackIsFileMode ==
    [][/\ (phase' = "run" /\ Fallback') =>
             /\ use_database' = 0
             /\ db_conn' = "NULL"
             /\ db' = db
             /\ NoDatabaseStep
       /\ (phase = "run" /\ Fallback /\ phase' = "off") =>
             /\ db' = db
             /\ NoDatabaseStep]_vars

\* C6 witness: a record was created in a session whose connection failed
FallbackWitness ==
    /\ phase = "run"
    /\ startup.config = "complete" /\ startup.result = "failed"
    /\ last.op = "add_equipment" /\ last.outcome = "ok"
    /\ item_count >= 1

\* C7: each id counter is strictly greater than every id of its kind held in
\* the store, in every reachable state.
CounterAboveHeldIds ==
    /\ \A i \in 1..item_count : inventory[i].id < next_item_id
    /\ \A i \in 1..request_count : requests[i].req_id < next_request_id

\* C7 witness: in database mode an insert returned an id larger than the
\* locally allocated one, and the record holds it
CounterResyncWitness ==
    /\ phase = "run" /\ use_database = 1
    /\ last.op = "add_equipment" /\ last.outcome = "ok"
    /\ item_count = 1
    /\ inventory[1].id > 1
    /\ next_item_id = inventory[1].id + 1

\* C8: get_stock_status gives LOW exactly when quantity <= min_threshold,
\* WATCH exactly when min_threshold < quantity <= floor(1.5 * min_threshold)
\* (that is, 2 * quantity <= 3 * min_threshold) and OK otherwise; with
\* min_threshold = 10, quantity 10 is LOW, 14 and 15 are WATCH, 16 is OK.
StockStatusRule ==
    probe.status # "" =>
        LET q == probe.quantity
            m == probe.min_threshold
        IN /\ probe.status \in {"LOW", "WATCH", "OK"}
           /\ probe.status = "LOW" <=> q <= m
           /\ probe.status = "WATCH" <=> (q > m /\ 2 * q <= 3 * m)
           /\ probe.status = "OK" <=> (q > m /\ 2 * q > 3 * m)
           /\ (m = 10 /\ q = 10) => probe.status = "LOW"
           /\ (m = 10 /\ q \in {14, 15}) => probe.status = "WATCH"
           /\ (m = 10 /\ q = 16) => probe.status = "OK"

\* C8 witness: the status of quantity 15 at threshold 10 was computed (WATCH)
StockStatusWitness ==
    /\ probe.status = "WATCH"
    /\ probe.min_threshold = 10
    /\ probe.quantity = 15

\* the decimal value of a string of digits
RECURSIVE DecimalValue(_)
DecimalValue(str) ==
    IF str = << >> THEN 0
    ELSE 10 * DecimalValue(SubSeq(str, 1, Len(str) - 1)) + (str[Len(str)] - 48)

\* C9: the checksum is a string of exactly four decimal digits whose value
\* is (id + quantity + min_threshold + sum of the character codes of name)
\* modulo 10000.
ChecksumIsFourDigits ==
    probe.checksum # << >> =>
        /\ Len(probe.checksum) = 4
        /\ \A k \in 1..4 : probe.checksum[k] \in 48..57
        /\ DecimalValue(probe.checksum) =
              (probe.id + probe.quantity + probe.min_threshold
                 + SumSeq(probe.name)) % 10000


\* C10: in database mode, when an equipment create, a quantity update or a
\* request create has returned, the database holds a row equal to the
\* record now held in memory.
ReplicatedAtReturn ==
    (phase = "run" /\ use_database = 1 /\ last.outcome = "ok") =>
        /\ last.op = "add_equipment" =>
              \E r \in 1..Len(db.equipment) : db.equipment[r] = inventory[item_count]
        /\ last.op = "update_quantity" =>
              \E r \in 1..Len(db.equipment) :
                  db.equipment[r] = inventory[find_by_id(inventory, item_count,
                                                         last.input[1])]
        /\ last.op = "request_supply" =>
              \E r \in 1..Len(db.requests) : db.requests[r] = requests[request_count]

\* C11: add_equipment with item_count at MAX_ITEMS and request_supply with
\* request_count at MAX_REQUESTS end with CapacityExceeded, which is what
\* the user is told, and leave the collection, its count, its id counter,
\* the name index and the database as they were; below the maximum neither
\* call ends with CapacityExceeded.
CapacityExceededChangesNothing ==
    [][/\ last'.op = "add_equipment" =>
             /\ last'.outcome = "CapacityExceeded" <=> item_count >= MAX_ITEMS
             /\ item_count >= MAX_ITEMS =>
                   UNCHANGED <<inventory, item_count, next_item_id, hash_table, db>>
       /\ last'.op = "request_supply" =>
             /\ last'.outcome = "CapacityExceeded" <=> request_count >= MAX_REQUESTS
             /\ request_count >= MAX_REQUESTS =>
                   UNCHANGED <<requests, request_count, next_request_id, db>>]_vars

\* C11 witness: add_equipment was refused with inventory[] full
CapacityExceededWitness ==
    /\ phase = "run"
    /\ last.op = "add_equipment" /\ last.outcome = "CapacityExceeded"
    /\ item_count = MAX_ITEMS
    /\ Len(inventory) = MAX_ITEMS

\* a request_supply call was refused with requests[] full
RequestCapacityReached ==
    /\ phase = "run"
    /\ last.op = "request_supply" /\ last.outcome = "CapacityExceeded"
    /\ request_count = MAX_REQUESTS

\* the indices of the records that hold this id
Holding(id) == {i \in 1..item_count : inventory[i].id = id}

\* C12: update_quantity with an id that no held record has ends with
\* NotFound and changes nothing in the store, the files or the database;
\* with an id that is held it sets the quantity of one record holding that
\* id to the entered value and its checksum to the checksum of the new
\* contents, and leaves the record's other fields, every other record, both
\* counts, both id counters, the requests and the name index unchanged.
UpdateChangesOneRecord ==
    [][last'.op = "update_quantity" =>
         LET id == last'.input[1] IN
         IF Holding(id) = {}
         THEN /\ last'.outcome = "NotFound"
              /\ UNCHANGED <<storeVars, fileVars, db>>
         ELSE /\ last'.outcome = "ok"
              /\ UNCHANGED <<item_count, next_item_id, requests, request_count,
                             next_request_id, hash_table, fileVars>>
              /\ Len(inventory') = Len(inventory)
              /\ \E i \in Holding(id) :
                    /\ inventory'[i].quantity = last'.input[2]
                    /\ inventory'[i].checksum =
                          ChecksumString(id, last'.input[2], inventory[i].min_threshold,
                                         inventory[i].name, char_signed)
                    /\ inventory'[i].id = id
                    /\ inventory'[i].name = inventory[i].name
                    /\ inventory'[i].min_threshold = inventory[i].min_threshold
                    /\ \A j \in 1..item_count :
                          j # i => inventory'[j] = inventory[j]]_vars

\* C12 witness: with two records held, the quantity of the second was
\* changed and its checksum with it
UpdateWitness ==
    /\ phase = "run"
    /\ last.op = "update_quantity" /\ last.outcome = "ok"
    /\ item_count = 2
    /\ inventory[1].id # inventory[2].id
    /\ last.input[1] = inventory[2].id
    /\ inventory[2].quantity = 0
    /\ inventory[2].checksum # ChecksumString(inventory[2].id, 1,
                                              inventory[2].min_threshold,
                                              inventory[2].name, char_signed)

\* an update_quantity call ended with NotFound while records were held
UpdateNotFoundReached ==
    /\ phase = "run"
    /\ last.op = "update_quantity" /\ last.outcome = "NotFound"
    /\ item_count >= 1

\* C13: a file-mode shutdown whose save could not open the equipment file
\* or the request file does not tell the user that the data was saved.
SaveFailureReported ==
    (last.op = "shutdown" /\ use_database = 0 /\ last.input # <<TRUE, TRUE>>)
        => last.outcome # "saved"

\* C14: a session started with db_config.conf absent, or present without
\* one of the keys host, port, dbname, user, password, runs in file mode
\* with no database connection.
MissingConfigIsOffline ==
    (phase = "run" /\ startup.config \in {"absent", "partial"}) =>
        (use_database = 0 /\ db_conn = "NULL")

\* C15: a process attempts the database connection at most once, at startup,
\* and use_database is 1 exactly if that attempt succeeded; no step of the
\* running process changes use_database or makes another attempt, whatever
\* operation runs and whatever statement fails.
BackendChosenOnce ==
    [][/\ (phase = "off" /\ phase' = "run") =>
             /\ startup'.attempts <= 1
             /\ use_database' = IF startup'.result = "connected" THEN 1 ELSE 0
       /\ (phase = "run" /\ phase' = "run") =>
             UNCHANGED <<use_database, startup>>]_vars

\* C15 witness: a database-mode session whose INSERT failed (the record is
\* held, the table is empty) is still in database mode after one attempt
BackendKeptWitness ==
    /\ phase = "run"
    /\ use_database = 1 /\ db_conn = "conn"
    /\ startup.attempts = 1
    /\ last.op = "add_equipment" /\ last.outcome = "ok"
    /\ item_count = 1
    /\ db.equipment = << >>

\* a session whose only connection attempt failed has run an operation
\* without another attempt
NoRetryReached ==
    /\ phase = "run"
    /\ use_database = 0
    /\ startup.result = "failed" /\ startup.attempts = 1
    /\ last.op = "request_supply"

\* the number of nodes of the name index that point at inventory[i-1]
RECURSIVE Occurrences(_, _)
Occurrences(chain, i) ==
    IF chain = << >> THEN 0
    ELSE (IF Head(chain) = i THEN 1 ELSE 0) + Occurrences(Tail(chain), i)

\* C16: in a running process, after the startup load and any creates and
\* quantity updates, every node of the name index points at a record of
\* inventory[0 .. item_count-1], every such record has exactly one node, and
\* that node is in the bucket hash_function gives for the record's name.
NameIndexMatchesInventory ==
    phase = "run" =>
        /\ \A b \in DOMAIN hash_table :
              \A k \in 1..Len(hash_table[b]) : hash_table[b][k] \in 1..item_count
        /\ \A i \in 1..item_count :
              LET b == hash_function(inventory[i].name, char_signed) IN
              /\ Occurrences(Bucket(hash_table, b), i) = 1
              /\ \A x \in DOMAIN hash_table :
                    x # b => Occurrences(hash_table[x], i) = 0

\* C16 witness: a loaded record and a record created after the load have
\* the same name and share a bucket
NameIndexWitness ==
    /\ phase = "run"
    /\ loaded_items = 1
    /\ item_count = 2
    /\ inventory[1].name = inventory[2].name
    /\ Len(Bucket(hash_table, hash_function(inventory[1].name, char_signed))) = 2
    /\ last.op = "add_equipment" /\ last.outcome = "ok"

\* a quantity was updated while two records of different names were held
NameIndexAfterUpdate ==
    /\ phase = "run"
    /\ item_count = 2
    /\ inventory[1].name # inventory[2].name
    /\ last.op = "update_quantity" /\ last.outcome = "ok"

\* C17: in a running process, in file mode and in database mode, the
\* checksum stored in every held record is the checksum of the record's
\* current id, quantity, min_threshold and name.
StoredChecksumCurrent ==
    phase = "run" =>
        \A i \in 1..item_count :
            inventory[i].checksum =
                ChecksumString(inventory[i].id, inventory[i].quantity,
                               inventory[i].min_threshold, inventory[i].name,
                               char_signed)

\* the same in file mode only
StoredChecksumCurrentInFileMode ==
    (phase = "run" /\ use_database = 0) =>
        \A i \in 1..item_count :
            inventory[i].checksum =
                ChecksumString(inventory[i].id, inventory[i].quantity,
                               inventory[i].min_threshold, inventory[i].name,
                               char_signed)

\* C18: the snapshot files change in the shutdown step only: no start,
\* create, search, update or request step and no kill changes them; and a
\* file-mode start, whether the process before it shut down or was killed,
\* loads the records, counts and counters the files hold, which is what the
\* last shutdown that wrote them saved (an absent file gives the empty
\* collection and counter 1).
FilesWrittenOnlyAtShutdown ==
    [][/\ last'.op # "shutdown" => UNCHANGED fileVars
       /\ (phase = "off" /\ phase' = "run" /\ use_database' = 0) =>
             /\ inventory' = IF data_file.exists THEN data_file.records ELSE << >>
             /\ item_count' = IF data_file.exists THEN data_file.count ELSE 0
             /\ next_item_id' = IF data_file.exists THEN data_file.next_id ELSE 1
             /\ requests' = IF request_file.exists THEN request_file.records ELSE << >>
             /\ request_count' = IF request_file.exists THEN request_file.count ELSE 0
             /\ next_request_id' =
                   IF request_file.exists THEN request_file.next_id ELSE 1]_vars

\* C18 witness: a file-mode process that loaded one saved record created a
\* second one, and equipment.dat still holds the saved state
FilesKeptWitness ==
    /\ phase = "run" /\ use_database = 0
    /\ last.op = "add_equipment" /\ last.outcome = "ok"
    /\ data_file.exists
    /\ data_file.count = 1 /\ loaded_items = 1
    /\ item_count = 2
    /\ data_file.records = SubSeq(inventory, 1, 1)

\* a process started after a save was killed, and equipment.dat still holds
\* the saved record
KilledAfterSave ==
    /\ phase = "off"
    /\ last.op = "kill"
    /\ data_file.exists /\ data_file.count = 1

====
